---- MODULE Spec2Model ----
(***************************************************************************)
(* rrvideo: the session-to-video pipeline, transformToVideo of             *)
(* src/index.ts, as a state machine.                                       *)
(*                                                                         *)
(* One run is one invocation of transformToVideo.  pc[r] names the         *)
(* operation the invocation is awaiting; every await of the source is one  *)
(* action that settles the awaited operation, either way.  The render      *)
(* context (the page running the replay document) is a separate actor: it  *)
(* reaches the host only through the functions exposeFunction registered.  *)
(* The temp directory is a directory of the working directory, which the   *)
(* runs of the batch script share.                                         *)
(***************************************************************************)
EXTENDS Integers, Sequences, FiniteSets, TLC

VARIABLES
    pc,            \* run -> the operation transformToVideo is awaiting
    input,         \* run -> what options.input names
    result,        \* run -> what the returned promise settled with
    browser,       \* run -> the browser of chromium.launch
    context,       \* run -> the context of browser.newContext
    exposed,       \* run -> the bridge functions registered on the page
    content,       \* run -> page.setContent has been started
    completion,    \* run -> state of the promise awaited at lines 273-278
    finishCalls,   \* run -> calls of onReplayFinish made by the page
    steps,         \* run -> how often each finalization step was started
    cleanPc,       \* run -> position of the detached cleanFiles call
    outputFile,    \* run -> what the run left at outputPath
    cancelAsked,   \* run -> the caller has given up on the run
    tempDir,       \* the directory __rrvideo__temp__ exists
    tempFiles,     \* the runs whose capture file is in it
    passed,        \* the options object as the caller wrote it
    options,       \* the options object as it is now
    defaultPlayer, \* the object defaultConfig.rrwebPlayer of the module
    file,          \* what the events file holds
    resolved,      \* the locals of a call once its synchronous part ran
    snapshots,     \* how far createSnapshots got with the events file
    maxViewport,   \* what getMaxViewport returned for the events
    html,          \* the replay document getHtml made
    hlPc,          \* the operation highlightElements is awaiting
    hlBrowser,     \* the browser of highlightElements
    hlResult,      \* what the promise of highlightElements settled with
    tree,          \* the container's descendants: each one's parent
    fileStyle,     \* descendant -> its style attribute in the input file
    attrs,         \* descendant -> its style and data-original-style
    handles,       \* descendantHandles
    hlIndex,       \* the loop variable i, counted from 1
    shots          \* the screenshots written, in order

runVars == << pc, input, result, browser, context, exposed, content,
              completion, finishCalls, steps, cleanPc, outputFile,
              cancelAsked, tempDir, tempFiles >>

callVars == << passed, options, defaultPlayer, file, resolved, snapshots,
               maxViewport, html >>

hlVars == << hlPc, hlBrowser, hlResult, tree, fileStyle, attrs, handles,
            hlIndex, shots >>

vars == << runVars, callVars, hlVars >>

(***************************************************************************)
(* Bounds.                                                                 *)
(***************************************************************************)
\* processes the batch script starts in one working directory
NumRuns == 2
\* calls of onReplayFinish the replay runtime makes in one run
MaxFinishCalls == 2
\* events of a recording given to getMaxViewport
MaxEvents == 3
\* tokens of the text an event carries
MaxText == 5
\* descendants of the container highlightElements works on
MaxNodes == 3

Runs == 1 .. NumRuns

\* The run of the command line tool: one process, one call.
CliRun == 1

(***************************************************************************)
(* Program constants.                                                      *)
(***************************************************************************)
defaultVideoDir == "__rrvideo__temp__"

ProgressFn == "onReplayProgressUpdate"
FinishFn == "onReplayFinish"

\* What options.input can name.
InputKinds == { "missing", "unreadable", "malformed", "events" }

FinalizationSteps == { "videoPath", "close", "move", "clean" }

Settled == { "returned", "rejected" }

\* The directory run r records its capture into, once it has a context.
RecordDir(r) == IF context[r] = "none" THEN "none" ELSE defaultVideoDir

(***************************************************************************)
(* Values of the call: options, config, paths, ratios, events.             *)
(***************************************************************************)

\* A key the object does not have.
Absent == [type |-> "absent"]
Undefined == [type |-> "undefined"]
\* A string that is a path, by its segments; "/" first makes it absolute.
Str(segs) == [type |-> "string", segs |-> segs]
\* The number num / den, den > 0.
Num(n, d) == [type |-> "number", num |-> n, den |-> d]
Bool(b) == [type |-> "boolean", val |-> b]
\* An object, by its own fields.
Obj(fields) == [type |-> "object", fields |-> fields]
\* A reference to an object that lives elsewhere: the caller's
\* options.rrwebPlayer or the module's defaultConfig.rrwebPlayer.
Ref(to) == [type |-> "ref", to |-> to]

\* o.k, undefined when o has no k.
Get(o, k) == IF k \in DOMAIN o THEN o[k] ELSE Undefined

\* !v for the values options.input and options.output take.
Falsy(v) == v.type = "undefined" \/ (v.type = "string" /\ v.segs = << >>)

\* delete o.k
Delete(o, k) == [j \in DOMAIN o \ {k} |-> o[j]]

\* Object.assign(target, source): every own key of source, whatever its
\* value, lands on target.
ObjectAssign(target, source) ==
    [k \in DOMAIN target \cup DOMAIN source |->
        IF k \in DOMAIN source THEN source[k] ELSE target[k]]

\* Line 8.
MaxScaleValue == 1

\* Lines 24-34; rrwebPlayer is one object of the module, held by reference.
defaultConfig ==
    [ input |-> Str(<< >>),
      output |-> Str(<< "rrvideo-output.webm" >>),
      resolutionRatio |-> Num(4, 5),
      rrwebPlayer |-> Ref("default") ]

\* process.cwd()
cwd == << "/", "work" >>

\* path.isAbsolute
isAbsolute(p) == Len(p) > 0 /\ p[1] = "/"

\* Lines 228-233: path.isAbsolute(p) ? p : path.resolve(process.cwd(), p)
ResolvePath(p) == IF isAbsolute(p) THEN p ELSE cwd \o p

\* Math.round(n / d) for d > 0: the nearest integer, halves upwards.
Round(n, d) == (2 * n + d) \div (2 * d)

\* Lines 240-243: the viewport the code scales.
fixedViewport == [width |-> 2048, height |-> 1152]

\* An event of the recording; only Meta events carry a viewport.
Meta(w, h) == [type |-> "Meta", width |-> w, height |-> h]
OtherEvent == [type |-> "FullSnapshot", width |-> 0, height |-> 0]
\* An event that carries text of the recorded page, by its tokens.
TextEvent(s) ==
    [type |-> "IncrementalSnapshot", width |-> 0, height |-> 0, text |-> s]

\* What the caller can write for each option.
InputChoices ==
    { Absent, Undefined, Str(<< >>), Str(<< "data", "a.json" >>),
      Str(<< "/", "data", "a.json" >>) }
OutputChoices ==
    { Absent, Undefined, Str(<< >>), Str(<< "out", "a.webm" >>),
      Str(<< "/", "out", "a.webm" >>) }
RatioChoices ==
    { Absent, Undefined, Num(0 - 1, 2), Num(0, 1), Num(1, 5000), Num(1, 2),
      Num(4, 5), Num(1, 1), Num(3, 2), Num(2, 1) }
PlayerChoices ==
    { Absent, Undefined, Obj([speed |-> Num(2, 1)]),
      Obj([showController |-> Bool(TRUE), width |-> Num(640, 1)]) }

\* The options object with the keys that were written.
MakeOptions(i, o, q, p) ==
    LET all == [input |-> i, output |-> o, resolutionRatio |-> q,
                rrwebPlayer |-> p]
    IN  [k \in { j \in DOMAIN all : all[j].type # "absent" } |-> all[k]]

\* What the events file can hold.
FileChoices ==
    { [kind |-> "unreadable", events |-> << >>],
      [kind |-> "malformed", events |-> << >>],
      [kind |-> "object", events |-> << >>],
      [kind |-> "array", events |-> << >>],
      [kind |-> "array", events |-> << OtherEvent >>],
      [kind |-> "array",
       events |-> << Meta(800, 600), OtherEvent, Meta(1024, 768) >>] }

\* The options src/cli.ts passes for --input a.json --output a.webm.
cliOptions ==
    MakeOptions(Str(<< "data", "a.json" >>), Str(<< "data", "a.webm" >>),
                Absent, Obj([speed |-> Num(1, 1)]))

\* Nothing has been called.
CallIdle ==
    /\ defaultPlayer = << >>
    /\ resolved = [stage |-> "idle"]
    /\ snapshots = "idle"
    /\ maxViewport = Undefined
    /\ html = Undefined


\* highlightElements has not been called.
HighlightIdle ==
    /\ hlPc = "idle"
    /\ hlBrowser = "none"
    /\ hlResult = "pending"
    /\ handles = << >>
    /\ hlIndex = 0
    /\ shots = << >>

\* No page is given to highlightElements.
NoPage ==
    /\ HighlightIdle
    /\ tree = << >>
    /\ fileStyle = << >>
    /\ attrs = << >>

RunsInit ==
    /\ pc = [r \in Runs |-> "idle"]
    /\ input = [r \in Runs |-> "none"]
    /\ result = [r \in Runs |-> "pending"]
    /\ browser = [r \in Runs |-> "none"]
    /\ context = [r \in Runs |-> "none"]
    /\ exposed = [r \in Runs |-> {}]
    /\ content = [r \in Runs |-> FALSE]
    /\ completion = [r \in Runs |-> "none"]
    /\ finishCalls = [r \in Runs |-> 0]
    /\ steps = [r \in Runs |-> [s \in FinalizationSteps |-> 0]]
    /\ cleanPc = [r \in Runs |-> "idle"]
    /\ outputFile = [r \in Runs |-> "untouched"]
    /\ cancelAsked = [r \in Runs |-> FALSE]
    /\ tempDir = FALSE
    /\ tempFiles = {}

\* One process, about to call transformToVideo as src/cli.ts does.
Init ==
    /\ RunsInit
    /\ CallIdle
    /\ NoPage
    /\ passed = cliOptions
    /\ options = cliOptions
    /\ file = [kind |-> "array", events |-> << OtherEvent >>]

\* The async function throws: its promise rejects with the error.
Reject(r, e) ==
    /\ pc' = [pc EXCEPT ![r] = "rejected"]
    /\ result' = [result EXCEPT ![r] = e]

Await(r, op) ==
    /\ pc' = [pc EXCEPT ![r] = op]
    /\ UNCHANGED result

(***************************************************************************)
(* transformToVideo, lines 219-307.                                        *)
(***************************************************************************)

\* Lines 234-254 with the launch moved above the read of the events file.
ReadEventsAfterLaunch(r, k) ==
    /\ browser' = [browser EXCEPT ![r] = "open"]
    /\ IF k = "events"
         THEN Await(r, "newContext")
         ELSE Reject(r, IF k = "unreadable" THEN "ReadError" ELSE "SyntaxError")

\* Lines 234-254: JSON.parse(fs.readFileSync(eventsPath)) throws on a file
\* that cannot be read or is no JSON; otherwise the viewport is computed
\* and chromium.launch is called.
ReadEvents(r, k) ==
    /\ UNCHANGED browser
    /\ IF k = "events"
         THEN Await(r, "launch")
         ELSE Reject(r, IF k = "unreadable" THEN "ReadError" ELSE "SyntaxError")

\* Lines 219-254: the synchronous start of the call, up to its first await.
Call(r) ==
    /\ pc[r] = "idle"
    /\ \E k \in InputKinds :
          /\ input' = [input EXCEPT ![r] = k]
          /\ IF k = "missing"
               THEN Reject(r, "input is required") /\ UNCHANGED browser
               ELSE ReadEvents(r, k)
    /\ UNCHANGED << context, exposed, content, completion, finishCalls, steps,
                    cleanPc, outputFile, cancelAsked, tempDir, tempFiles >>
    /\ UNCHANGED << callVars, hlVars >>

\* Line 254: await chromium.launch.  Line 257 calls browser.newContext.
LaunchSettles(r) ==
    /\ pc[r] = "launch"
    /\ \/ /\ browser' = [browser EXCEPT ![r] = "open"]
          /\ Await(r, "newContext")
       \/ /\ Reject(r, "EngineLaunchError")
          /\ UNCHANGED browser
    /\ UNCHANGED << input, context, exposed, content, completion, finishCalls,
                    steps, cleanPc, outputFile, cancelAsked, tempDir,
                    tempFiles >>
    /\ UNCHANGED << callVars, hlVars >>

\* Lines 257-263: await browser.newContext, recording into defaultVideoDir,
\* which the engine creates.  Line 264 calls context.newPage.
NewContextSettles(r) ==
    /\ pc[r] = "newContext"
    /\ \/ /\ context' = [context EXCEPT ![r] = "open"]
          /\ tempDir' = TRUE
          /\ Await(r, "newPage")
       \/ /\ Reject(r, "newContext failed")
          /\ UNCHANGED << context, tempDir >>
    /\ UNCHANGED << input, browser, exposed, content, completion, finishCalls,
                    steps, cleanPc, outputFile, cancelAsked, tempFiles >>
    /\ UNCHANGED << callVars, hlVars >>

\* Line 264: await context.newPage; the page's capture file starts in the
\* directory of the context.  Line 265 calls page.goto.
NewPageSettles(r) ==
    /\ pc[r] = "newPage"
    /\ \/ /\ tempDir' = TRUE
          /\ tempFiles' = tempFiles \cup {r}
          /\ Await(r, "goto")
       \/ /\ Reject(r, "newPage failed")
          /\ UNCHANGED << tempDir, tempFiles >>
    /\ UNCHANGED << input, browser, context, exposed, content, completion,
                    finishCalls, steps, cleanPc, outputFile, cancelAsked >>
    /\ UNCHANGED << callVars, hlVars >>

\* Line 265: await page.goto('about:blank').  Line 266 calls exposeFunction.
GotoSettles(r) ==
    /\ pc[r] = "goto"
    /\ \/ Await(r, "exposeProgress")
       \/ Reject(r, "goto failed")
    /\ UNCHANGED << input, browser, context, exposed, content, completion,
                    finishCalls, steps, cleanPc, outputFile, cancelAsked,
                    tempDir, tempFiles >>
    /\ UNCHANGED << callVars, hlVars >>

\* Lines 273-277 with the two calls of the chain swapped: the document is
\* loaded first and onReplayFinish is registered when that has settled.
LoadBeforeRegister(r) ==
    /\ completion' = [completion EXCEPT ![r] = "pending"]
    /\ content' = [content EXCEPT ![r] = TRUE]
    /\ Await(r, "exposeFinish")

\* Lines 273-276: the promise is created and its executor calls
\* page.exposeFunction('onReplayFinish', () => resolve()).
StartBridge(r) ==
    /\ completion' = [completion EXCEPT ![r] = "pending"]
    /\ UNCHANGED content
    /\ Await(r, "exposeFinish")

\* Lines 266-271: await page.exposeFunction('onReplayProgressUpdate', ...).
ExposeProgressSettles(r) ==
    /\ pc[r] = "exposeProgress"
    /\ \/ /\ exposed' = [exposed EXCEPT ![r] = @ \cup {ProgressFn}]
          /\ StartBridge(r)
       \/ /\ Reject(r, "exposeFunction failed")
          /\ UNCHANGED << exposed, content, completion >>
    /\ UNCHANGED << input, browser, context, finishCalls, steps, cleanPc,
                    outputFile, cancelAsked, tempDir, tempFiles >>
    /\ UNCHANGED << callVars, hlVars >>

\* Lines 275-277: exposeFunction('onReplayFinish') settles.  Fulfilled, its
\* then-callback calls page.setContent(getHtml(events, config)).  Rejected,
\* the chain ends there (it is a void expression: nobody sees the
\* rejection) and the promise of line 273 stays pending.
ExposeFinishSettles(r) ==
    /\ pc[r] = "exposeFinish"
    /\ \/ /\ exposed' = [exposed EXCEPT ![r] = @ \cup {FinishFn}]
          /\ content' = [content EXCEPT ![r] = TRUE]
          /\ Await(r, "setContent")
       \/ /\ UNCHANGED << exposed, content >>
          /\ Await(r, "awaitFinish")
    /\ UNCHANGED << input, browser, context, completion, finishCalls, steps,
                    cleanPc, outputFile, cancelAsked, tempDir, tempFiles >>
    /\ UNCHANGED << callVars, hlVars >>

\* Line 277: page.setContent settles; the chain is a void expression, so
\* neither outcome reaches the promise of line 273.
SetContentSettles(r) ==
    /\ pc[r] = "setContent"
    /\ Await(r, "awaitFinish")
    /\ UNCHANGED << input, browser, context, exposed, content, completion,
                    finishCalls, steps, cleanPc, outputFile, cancelAsked,
                    tempDir, tempFiles >>
    /\ UNCHANGED << callVars, hlVars >>

\* resolve() that runs what follows the await again on every call.
ResolveRestarts(r) ==
    /\ completion' = [completion EXCEPT ![r] = "resolved"]
    /\ pc' = [pc EXCEPT ![r] =
                 IF completion[r] = "resolved" THEN "awaitFinish" ELSE @]

\* Line 276: resolve() of the promise of line 273.  A settled promise stays
\* as it is; the code after the await is resumed by the settlement only.
Resolve(r) ==
    /\ completion' = [completion EXCEPT ![r] = "resolved"]
    /\ UNCHANGED pc

\* Lines 147-151 and 276: the replay document calls window.onReplayFinish,
\* when it is a function of the page, and the host callback resolves.
OnReplayFinish(r) ==
    /\ content[r]
    /\ context[r] = "open"
    /\ FinishFn \in exposed[r]
    /\ finishCalls[r] < MaxFinishCalls
    /\ finishCalls' = [finishCalls EXCEPT ![r] = @ + 1]
    /\ Resolve(r)
    /\ UNCHANGED << input, result, browser, context, exposed, content, steps,
                    cleanPc, outputFile, cancelAsked, tempDir, tempFiles >>
    /\ UNCHANGED << callVars, hlVars >>

\* The await of line 273 that goes on whatever the promise's state.
ResumeUnconditionally(r) ==
    /\ pc[r] \in { "setContent", "awaitFinish" }
    /\ steps' = [steps EXCEPT ![r]["videoPath"] = @ + 1]
    /\ Await(r, "videoPath")

\* Lines 273-279: the await of the promise ends once the promise is
\* resolved; line 279 asks the page's video for its path.
Resume(r) ==
    /\ pc[r] \in { "setContent", "awaitFinish" }
    /\ completion[r] = "resolved"
    /\ steps' = [steps EXCEPT ![r]["videoPath"] = @ + 1]
    /\ Await(r, "videoPath")

AwaitFinishEnds(r) ==
    /\ Resume(r)
    /\ UNCHANGED << input, browser, context, exposed, content, completion,
                    finishCalls, cleanPc, outputFile, cancelAsked, tempDir,
                    tempFiles >>
    /\ UNCHANGED << callVars, hlVars >>

\* Line 279: await page.video()?.path().  Line 286 calls context.close.
VideoPathSettles(r) ==
    /\ pc[r] = "videoPath"
    /\ \/ /\ steps' = [steps EXCEPT ![r]["close"] = @ + 1]
          /\ Await(r, "closeContext")
       \/ /\ Reject(r, "video path failed")
          /\ UNCHANGED steps
    /\ UNCHANGED << input, browser, context, exposed, content, completion,
                    finishCalls, cleanPc, outputFile, cancelAsked, tempDir,
                    tempFiles >>
    /\ UNCHANGED << callVars, hlVars >>

\* Line 286 without its await: fs.move is called while the context is
\* still closing.
CloseContextNotAwaited(r) ==
    /\ pc[r] = "closeContext"
    /\ steps' = [steps EXCEPT ![r]["move"] = @ + 1]
    /\ Await(r, "move")
    /\ UNCHANGED << input, browser, context, exposed, content, completion,
                    finishCalls, cleanPc, outputFile, cancelAsked, tempDir,
                    tempFiles >>
    /\ UNCHANGED << callVars, hlVars >>

\* Line 286: await context.close().  Lines 288-289 call fs.move.
CloseContextSettles(r) ==
    /\ pc[r] = "closeContext"
    /\ \/ /\ context' = [context EXCEPT ![r] = "closed"]
          /\ steps' = [steps EXCEPT ![r]["move"] = @ + 1]
          /\ Await(r, "move")
       \/ /\ Reject(r, "context.close failed")
          /\ UNCHANGED << context, steps >>
    /\ UNCHANGED << input, browser, exposed, content, completion, finishCalls,
                    cleanPc, outputFile, cancelAsked, tempDir, tempFiles >>
    /\ UNCHANGED << callVars, hlVars >>

\* Line 289: fs.move(videoPath, outputPath, { overwrite: true }) is no one
\* step of the file system.  With overwrite it removes what is at the
\* destination, then renames the source, and copies it when the rename
\* crosses devices.  A move that fails leaves the destination as it was
\* (the failure came before the removal) or clobbered: without the file it
\* had, and with no more than the part of the capture that was copied.
MoveFailures == { "untouched", "clobbered" }

\* Lines 287-296 with cleanFiles called from then instead of finally: a
\* failed move is logged and nothing is cleaned.
MoveSettlesCleaningOnSuccess(r) ==
    /\ pc[r] = "move"
    /\ \/ /\ r \in tempFiles
          /\ tempFiles' = tempFiles \ {r}
          /\ outputFile' = [outputFile EXCEPT ![r] = "capture"]
          /\ steps' = [steps EXCEPT ![r]["clean"] = @ + 1]
          /\ cleanPc' = [cleanPc EXCEPT ![r] = "removeVideo"]
       \/ /\ \E left \in MoveFailures :
                outputFile' = [outputFile EXCEPT ![r] = left]
          /\ UNCHANGED << tempFiles, steps, cleanPc >>
    /\ Await(r, "sleep")
    /\ UNCHANGED << input, browser, context, exposed, content, completion,
                    finishCalls, cancelAsked, tempDir >>
    /\ UNCHANGED << callVars, hlVars >>

\* Lines 287-303: fs.move settles.  A failure is logged by the catch
\* callback.  The finally callback calls cleanFiles and returns without
\* its promise, so Promise.all is fulfilled and the timer of line 303 is
\* set while cleanFiles goes on by itself.  The browser is not closed
\* (line 298).
MoveSettles(r) ==
    /\ pc[r] = "move"
    /\ \/ /\ r \in tempFiles
          /\ tempFiles' = tempFiles \ {r}
          /\ outputFile' = [outputFile EXCEPT ![r] = "capture"]
       \/ /\ \E left \in MoveFailures :
                outputFile' = [outputFile EXCEPT ![r] = left]
          /\ UNCHANGED tempFiles
    /\ steps' = [steps EXCEPT ![r]["clean"] = @ + 1]
    /\ cleanPc' = [cleanPc EXCEPT ![r] = "removeVideo"]
    /\ Await(r, "sleep")
    /\ UNCHANGED << input, browser, context, exposed, content, completion,
                    finishCalls, cancelAsked, tempDir >>
    /\ UNCHANGED << callVars, hlVars >>

\* Lines 303-306: the timer fires and transformToVideo returns outputPath.
SleepSettles(r) ==
    /\ pc[r] = "sleep"
    /\ pc' = [pc EXCEPT ![r] = "returned"]
    /\ result' = [result EXCEPT ![r] = "outputPath"]
    /\ UNCHANGED << input, browser, context, exposed, content, completion,
                    finishCalls, steps, cleanPc, outputFile, cancelAsked,
                    tempDir, tempFiles >>
    /\ UNCHANGED << callVars, hlVars >>

(***************************************************************************)
(* cleanFiles, lines 280-285, running detached from the call.              *)
(***************************************************************************)

\* Line 281: await fs.remove(videoPath); a missing file is no error.
CleanRemoveVideo(r) ==
    /\ cleanPc[r] = "removeVideo"
    /\ tempFiles' = tempFiles \ {r}
    /\ cleanPc' = [cleanPc EXCEPT ![r] = "readdir"]
    /\ UNCHANGED << pc, input, result, browser, context, exposed, content,
                    completion, finishCalls, steps, outputFile, cancelAsked,
                    tempDir >>
    /\ UNCHANGED << callVars, hlVars >>

\* Line 282: await fs.readdir(defaultVideoDir), which throws when the
\* directory is missing; the rejection of cleanFiles is seen by nobody.
CleanReaddir(r) ==
    /\ cleanPc[r] = "readdir"
    /\ cleanPc' = [cleanPc EXCEPT ![r] =
                      IF ~tempDir THEN "failed"
                      ELSE IF tempFiles = {} THEN "removeDir" ELSE "done"]
    /\ UNCHANGED << pc, input, result, browser, context, exposed, content,
                    completion, finishCalls, steps, outputFile, cancelAsked,
                    tempDir, tempFiles >>
    /\ UNCHANGED << callVars, hlVars >>

\* Line 283: await fs.remove(defaultVideoDir), with all that is in it.
CleanRemoveDir(r) ==
    /\ cleanPc[r] = "removeDir"
    /\ tempDir' = FALSE
    /\ tempFiles' = {}
    /\ cleanPc' = [cleanPc EXCEPT ![r] = "done"]
    /\ UNCHANGED << pc, input, result, browser, context, exposed, content,
                    completion, finishCalls, steps, outputFile, cancelAsked >>
    /\ UNCHANGED << callVars, hlVars >>

(***************************************************************************)
(* The caller.                                                             *)
(***************************************************************************)

\* The caller holds the promise of the call and nothing else: neither
\* RRvideoConfig nor transformToVideo has a way to be told to stop.  The
\* caller giving up on a run in progress reaches no state of the run.
CallerCancel(r) ==
    /\ pc[r] \notin { "idle" } \cup Settled
    /\ ~cancelAsked[r]
    /\ cancelAsked' = [cancelAsked EXCEPT ![r] = TRUE]
    /\ UNCHANGED << pc, input, result, browser, context, exposed, content,
                    completion, finishCalls, steps, cleanPc, outputFile,
                    tempDir, tempFiles >>
    /\ UNCHANGED << callVars, hlVars >>

(***************************************************************************)
(* The synchronous part of transformToVideo, lines 219-254, on the         *)
(* values of its options and of the events file.                           *)
(***************************************************************************)

\* Line 222 testing for undefined only.
InputUndefined(o) == Get(o, "input").type = "undefined"

\* Line 222: !options.input
InputMissing(o) == Falsy(Get(o, "input"))

\* Line 224 testing for undefined only.
DropUndefinedOutput(o) ==
    IF Get(o, "output").type = "undefined" THEN Delete(o, "output") ELSE o

\* Line 224: if (!options.output) delete options.output
DropEmptyOutput(o) ==
    IF Falsy(Get(o, "output")) THEN Delete(o, "output") ELSE o

\* Lines 221 and 225: { ...defaultConfig } then Object.assign(config,
\* options).  An rrwebPlayer object of the caller is taken by reference.
MergeConfig(o) ==
    LET c == ObjectAssign(defaultConfig, o)
    IN  IF c.rrwebPlayer.type = "object"
          THEN [c EXCEPT !.rrwebPlayer = Ref("options")]
          ELSE c

\* Line 226 without the assignment.
KeepRatio(c) == c

\* Line 226: if (config.resolutionRatio > 1) config.resolutionRatio = 1
ClampRatio(c) ==
    IF /\ c.resolutionRatio.type = "number"
       /\ c.resolutionRatio.num > c.resolutionRatio.den
      THEN [c EXCEPT !.resolutionRatio = Num(1, 1)]
      ELSE c

\* Lines 247 and 250: config.resolutionRatio ?? 1
RatioUsed(c) ==
    IF c.resolutionRatio.type = "undefined" THEN Num(1, 1)
    ELSE c.resolutionRatio

\* Lines 245-252.
ScaledViewport(c) ==
    LET q == RatioUsed(c)
    IN  [ width |-> Round(fixedViewport.width * q.num * MaxScaleValue, q.den),
          height |-> Round(fixedViewport.height * q.num * MaxScaleValue,
                           q.den) ]

\* The fields Object.assign copies from scaledViewport at line 253.
ViewportFields(vp) == [width |-> Num(vp.width, 1), height |-> Num(vp.height, 1)]

\* Lines 219-254: transformToVideo up to the call of chromium.launch.
TransformCall ==
    /\ resolved.stage = "idle"
    /\ IF InputMissing(options)
         THEN /\ resolved' = [stage |-> "rejected",
                              error |-> "input is required",
                              fileRead |-> FALSE]
              /\ UNCHANGED << options, defaultPlayer >>
         ELSE LET o == DropEmptyOutput(options)
                  c == ClampRatio(MergeConfig(o))
                  outputPath == ResolvePath(c.output.segs)
                  eventsPath == ResolvePath(c.input.segs)
                  vp == ScaledViewport(c)
                  got == [fileRead |-> TRUE, config |-> c,
                          eventsPath |-> eventsPath,
                          outputPath |-> outputPath]
              IN  IF file.kind \in { "unreadable", "malformed" }
                    THEN /\ resolved' =
                               got @@ [stage |-> "rejected",
                                       error |-> IF file.kind = "unreadable"
                                                   THEN "ReadError"
                                                   ELSE "SyntaxError"]
                         /\ options' = o
                         /\ UNCHANGED defaultPlayer
                  ELSE IF c.rrwebPlayer.type # "ref"
                    THEN /\ resolved' =
                               got @@ [stage |-> "rejected",
                                       error |-> "TypeError"]
                         /\ options' = o
                         /\ UNCHANGED defaultPlayer
                  ELSE /\ resolved' =
                             got @@ [stage |-> "launch",
                                     ratio |-> RatioUsed(c),
                                     scaledViewport |-> vp]
                       /\ options' =
                             IF c.rrwebPlayer.to = "options"
                               THEN [o EXCEPT !.rrwebPlayer =
                                        Obj(ObjectAssign(@.fields,
                                                         ViewportFields(vp)))]
                               ELSE o
                       /\ defaultPlayer' =
                             IF c.rrwebPlayer.to = "default"
                               THEN ObjectAssign(defaultPlayer,
                                                 ViewportFields(vp))
                               ELSE defaultPlayer
    /\ UNCHANGED << passed, file, snapshots, maxViewport, html >>
    /\ UNCHANGED << runVars, hlVars >>

\* createSnapshots, lines 27-45 of the snapshot tool: the file is read and
\* parsed inside a try, then checked to be a non-empty array.
CreateSnapshotsReads ==
    /\ snapshots = "idle"
    /\ snapshots' =
          IF file.kind \in { "unreadable", "malformed" }
            THEN "Failed to read or parse events file"
          ELSE IF file.kind # "array" \/ Len(file.events) = 0
            THEN "Events file is empty or invalid"
          ELSE "ensureDir"
    /\ UNCHANGED << passed, options, defaultPlayer, file, resolved,
                    maxViewport, html >>
    /\ UNCHANGED << runVars, hlVars >>

(***************************************************************************)
(* getHtml, lines 36-200: the replay document.                             *)
(***************************************************************************)

\* The tokens a text of the recorded page is made of: a text is a sequence
\* of them, "script" and "SCRIPT" standing for the word in either case.
TextTokens == { "<", "/", "script", "SCRIPT", " ", ">", "\\" }

Texts == UNION { [1 .. n -> TextTokens] : n \in 0 .. MaxText }

\* JSON.stringify of a string: quoted, with quotes and backslashes escaped;
\* <, / and > stay as they are.
RECURSIVE JSONChars(_, _)
JSONChars(s, i) ==
    IF i > Len(s) THEN << >>
    ELSE (IF s[i] \in { "\\", "\"" } THEN << "\\", s[i] >> ELSE << s[i] >>)
            \o JSONChars(s, i + 1)

JSONString(s) == << "\"" >> \o JSONChars(s, 1) \o << "\"" >>

\* JSON.stringify of one event, as far as its text goes.
JSONEvent(e) ==
    << "{" >> \o (IF "text" \in DOMAIN e THEN JSONString(e.text) ELSE << >>)
       \o << "}" >>

\* JSON.stringify(events): the events in order, separated by commas.
RECURSIVE JSONEvents(_, _)
JSONEvents(events, i) ==
    IF i > Len(events) THEN << >>
    ELSE (IF i > 1 THEN << "," >> ELSE << >>)
            \o JSONEvent(events[i]) \o JSONEvents(events, i + 1)

JSONStringify(events) == << "[" >> \o JSONEvents(events, 1) \o << "]" >>

\* Lines 92-95: .replace(/<\/script>/g, '<\\/script>'), every match of the
\* literal, lower-case tag from left to right.
RECURSIVE ReplaceScriptEnd(_, _)
ReplaceScriptEnd(t, i) ==
    IF i > Len(t) THEN << >>
    ELSE IF /\ i + 3 <= Len(t)
            /\ t[i] = "<"
            /\ t[i + 1] = "/"
            /\ t[i + 2] = "script"
            /\ t[i + 3] = ">"
      THEN << "<", "\\", "/", "script", ">" >> \o ReplaceScriptEnd(t, i + 4)
      ELSE << t[i] >> \o ReplaceScriptEnd(t, i + 1)

\* Line 112: JSON.stringify of the options bag, read back by the page as
\* an object literal: keys whose value is undefined are left out.
JSONObject(fields) ==
    [k \in { j \in DOMAIN fields : fields[j].type # "undefined" } |->
        fields[k]]

\* Lines 119-120: the size used when userConfig has none.
DefaultContentWidth == 1280
DefaultContentHeight == 720

\* v || d for a number or undefined v.
OrElse(v, d) ==
    IF v.type = "undefined" \/ (v.type = "number" /\ v.num = 0) THEN d ELSE v

\* Lines 128-135: the props the document sets itself.
builtinProps ==
    [ events |-> Ref("events"),
      showController |-> Bool(FALSE),
      skipInactive |-> Bool(TRUE),
      autoPlay |-> Bool(TRUE),
      mouseTail |-> Obj([strokeStyle |-> Str(<< "yellow" >>)]) ]

\* The object config.rrwebPlayer refers to when getHtml reads it.
PlayerBag ==
    IF resolved.config.rrwebPlayer.to = "options"
      THEN options.rrwebPlayer.fields
      ELSE defaultPlayer

\* Lines 36-200: what the document gives the replay runtime.
getHtml(events, bag) ==
    LET userConfig == JSONObject(bag)
    IN  [ events |-> ReplaceScriptEnd(JSONStringify(events), 1),
          userConfig |-> userConfig,
          width |-> OrElse(Get(userConfig, "width"),
                           Num(DefaultContentWidth, 1)),
          height |-> OrElse(Get(userConfig, "height"),
                            Num(DefaultContentHeight, 1)),
          props |-> ObjectAssign(builtinProps, userConfig) ]

\* Line 277: page.setContent(getHtml(events, config)).
GetHtml ==
    /\ resolved.stage = "launch"
    /\ html = Undefined
    /\ html' = getHtml(file.events, PlayerBag)
    /\ UNCHANGED << passed, options, defaultPlayer, file, resolved,
                    snapshots, maxViewport >>
    /\ UNCHANGED << runVars, hlVars >>

(***************************************************************************)
(* getMaxViewport, lines 205-217.                                          *)
(***************************************************************************)

\* Lines 206-207: the dimensions the scan starts from.
FloorWidth == 500
FloorHeight == 500

\* Lines 208-212: events.forEach from event i on, acc the running maxWidth
\* and maxHeight.
RECURSIVE ScanViewport(_, _, _)
ScanViewport(events, i, acc) ==
    IF i > Len(events) THEN acc
    ELSE LET e == events[i]
         IN  ScanViewport(events, i + 1,
                IF e.type # "Meta" THEN acc
                ELSE [ width |-> IF e.width > acc.width
                                   THEN e.width ELSE acc.width,
                       height |-> IF e.height > acc.height
                                    THEN e.height ELSE acc.height ])

\* Lines 208-212 assigning every Meta event's size without comparing.
RECURSIVE ScanLast(_, _, _)
ScanLast(events, i, acc) ==
    IF i > Len(events) THEN acc
    ELSE LET e == events[i]
         IN  ScanLast(events, i + 1,
                IF e.type # "Meta" THEN acc
                ELSE [width |-> e.width, height |-> e.height])

getMaxViewportOfLast(events) ==
    ScanLast(events, 1, [width |-> FloorWidth, height |-> FloorHeight])

\* Lines 206-207 starting from zero.
getMaxViewportFromZero(events) ==
    ScanViewport(events, 1, [width |-> 0, height |-> 0])

\* Lines 205-217.
getMaxViewport(events) ==
    ScanViewport(events, 1, [width |-> FloorWidth, height |-> FloorHeight])

\* getMaxViewport is applied to the events of the file.
GetMaxViewport ==
    /\ maxViewport = Undefined
    /\ file.kind = "array"
    /\ maxViewport' = getMaxViewport(file.events)
    /\ UNCHANGED << passed, options, defaultPlayer, file, resolved,
                    snapshots, html >>
    /\ UNCHANGED << runVars, hlVars >>

(***************************************************************************)
(* highlightElements, src/snapshot_pipeline/highlight_elements.ts.         *)
(***************************************************************************)

\* An attribute of an element: absent, or present with a text.
NoAttr == [present |-> FALSE, text |-> << >>]
Attr(t) == [present |-> TRUE, text |-> t]

\* Line 121: the rule the highlight appends to the style.
BorderRule == "; border: 4px solid red !important;"

\* What the style attribute of an element of the page can be.
StyleChoices == { NoAttr, Attr(<< >>), Attr(<< "color: blue" >>) }

\* The container is node 0; tree[n] is the parent of descendant n, and
\* the children of a node are in document order by their number.
TreeChoices ==
    UNION { { t \in [1 .. n -> 0 .. n] : \A k \in 1 .. n : t[k] < k } :
               n \in 0 .. MaxNodes }

\* el.getAttribute(name) || ''
AttrOrEmpty(a) == IF a.present THEN a.text ELSE << >>

\* Lines 45-50 with the two pushes swapped: the descendants of a child
\* are pushed before the child itself.
RECURSIVE getFlattenedChildLast(_, _), FlattenChildLast(_, _, _)
FlattenChildLast(t, el, k) ==
    IF k > Len(t) THEN << >>
    ELSE (IF t[k] = el THEN getFlattenedChildLast(t, k) \o << k >>
                       ELSE << >>)
            \o FlattenChildLast(t, el, k + 1)

getFlattenedChildLast(t, el) == FlattenChildLast(t, el, 1)

\* Lines 41-52: the children of el from the k-th node on, each followed by
\* its own flattened descendants.
RECURSIVE getFlattenedDescendants(_, _), FlattenFrom(_, _, _)
FlattenFrom(t, el, k) ==
    IF k > Len(t) THEN << >>
    ELSE (IF t[k] = el THEN << k >> \o getFlattenedDescendants(t, k)
                       ELSE << >>)
            \o FlattenFrom(t, el, k + 1)

getFlattenedDescendants(t, el) == FlattenFrom(t, el, 1)

\* The elements whose style ends with the rule of the highlight.
Highlighted ==
    { n \in DOMAIN attrs :
         /\ attrs[n].style.present
         /\ Len(attrs[n].style.text) > 0
         /\ attrs[n].style.text[Len(attrs[n].style.text)] = BorderRule }

\* page.screenshot wrote the file of element i (0: original).
Screenshot(i) == [index |-> i, highlighted |-> Highlighted]

\* An await inside the try of lines 82-147 throws: the finally block runs.
HlThrow(e) ==
    /\ hlPc' = "closeAfterThrow"
    /\ hlResult' = e

\* Lines 58-73: the input file is tested, then fs.ensureDir is awaited.
HlCall ==
    /\ hlPc = "idle"
    /\ \/ /\ hlPc' = "rejected"
          /\ hlResult' = "Input file not found"
       \/ /\ hlPc' = "ensureDir"
          /\ UNCHANGED hlResult
    /\ UNCHANGED << hlBrowser, tree, fileStyle, attrs, handles, hlIndex, shots >>
    /\ UNCHANGED << runVars, callVars >>

\* Line 73: await fs.ensureDir.  Line 76 calls chromium.launch.
HlEnsureDirSettles ==
    /\ hlPc = "ensureDir"
    /\ \/ /\ hlPc' = "launch"
          /\ UNCHANGED hlResult
       \/ /\ hlPc' = "rejected"
          /\ hlResult' = "ensureDir failed"
    /\ UNCHANGED << hlBrowser, tree, fileStyle, attrs, handles, hlIndex, shots >>
    /\ UNCHANGED << runVars, callVars >>

\* Line 76: await chromium.launch().  Line 77 calls browser.newContext.
HlLaunchSettles ==
    /\ hlPc = "launch"
    /\ \/ /\ hlPc' = "newContext"
          /\ hlBrowser' = "open"
          /\ UNCHANGED hlResult
       \/ /\ hlPc' = "rejected"
          /\ hlResult' = "launch failed"
          /\ UNCHANGED hlBrowser
    /\ UNCHANGED << tree, fileStyle, attrs, handles, hlIndex, shots >>
    /\ UNCHANGED << runVars, callVars >>

\* Lines 77-79: await browser.newContext, before the try.
HlNewContextSettles ==
    /\ hlPc = "newContext"
    /\ \/ /\ hlPc' = "newPage"
          /\ UNCHANGED hlResult
       \/ /\ hlPc' = "rejected"
          /\ hlResult' = "newContext failed"
    /\ UNCHANGED << hlBrowser, tree, fileStyle, attrs, handles, hlIndex, shots >>
    /\ UNCHANGED << runVars, callVars >>

\* Line 80: await context.newPage, before the try.  Line 84 calls goto.
HlNewPageSettles ==
    /\ hlPc = "newPage"
    /\ \/ /\ hlPc' = "goto"
          /\ UNCHANGED hlResult
       \/ /\ hlPc' = "rejected"
          /\ hlResult' = "newPage failed"
    /\ UNCHANGED << hlBrowser, tree, fileStyle, attrs, handles, hlIndex, shots >>
    /\ UNCHANGED << runVars, callVars >>

\* Line 84: await page.goto(fileUrl).  Line 88 calls page.$(selector).
HlGotoSettles ==
    /\ hlPc = "goto"
    /\ \/ /\ hlPc' = "query"
          /\ UNCHANGED hlResult
       \/ HlThrow("goto failed")
    /\ UNCHANGED << hlBrowser, tree, fileStyle, attrs, handles, hlIndex, shots >>
    /\ UNCHANGED << runVars, callVars >>

\* Lines 88-95: await page.$(selector); without a container the function
\* returns from inside the try, else getFlattenedDescendants is called.
HlQuerySettles ==
    /\ hlPc = "query"
    /\ \/ /\ hlPc' = "flatten"
          /\ UNCHANGED hlResult
       \/ /\ hlPc' = "closeAfterReturn"
          /\ UNCHANGED hlResult
       \/ HlThrow("query failed")
    /\ UNCHANGED << hlBrowser, tree, fileStyle, attrs, handles, hlIndex, shots >>
    /\ UNCHANGED << runVars, callVars >>

\* Lines 95-108: await getFlattenedDescendants(container); the screenshot
\* of the original page is started.
HlFlattenSettles ==
    /\ hlPc = "flatten"
    /\ \/ /\ handles' = getFlattenedDescendants(tree, 0)
          /\ hlPc' = "original"
          /\ UNCHANGED hlResult
       \/ /\ HlThrow("query failed")
          /\ UNCHANGED handles
    /\ UNCHANGED << hlBrowser, tree, fileStyle, attrs, hlIndex, shots >>
    /\ UNCHANGED << runVars, callVars >>

\* Lines 114-118 and 142-144: the test of the loop with i at its value;
\* the body starts with the evaluate that highlights, the end returns.
HlLoop(i) ==
    /\ hlIndex' = i
    /\ hlPc' = IF i <= Len(handles) THEN "highlight" ELSE "closeAfterReturn"
    /\ UNCHANGED hlResult

\* Lines 108-114: await page.screenshot of the original page; the loop
\* starts with its first element.
HlOriginalSettles ==
    /\ hlPc = "original"
    /\ \/ /\ shots' = Append(shots, Screenshot(0))
          /\ HlLoop(1)
       \/ /\ HlThrow("screenshot failed")
          /\ UNCHANGED << shots, hlIndex >>
    /\ UNCHANGED << hlBrowser, tree, fileStyle, attrs, handles >>
    /\ UNCHANGED << runVars, callVars >>

\* Lines 118-125: await page.evaluate saving the style attribute in
\* data-original-style and appending the border; waitForTimeout is called.
HlHighlightSettles ==
    /\ hlPc = "highlight"
    /\ \/ /\ LET el == handles[hlIndex]
                 originalStyle == AttrOrEmpty(attrs[el].style)
             IN  attrs' = [attrs EXCEPT ![el] =
                             [ saved |-> Attr(originalStyle),
                               style |-> Attr(Append(originalStyle,
                                                     BorderRule)) ]]
          /\ hlPc' = "wait"
          /\ UNCHANGED hlResult
       \/ /\ HlThrow("evaluate failed")
          /\ UNCHANGED attrs
    /\ UNCHANGED << hlBrowser, tree, fileStyle, handles, hlIndex, shots >>
    /\ UNCHANGED << runVars, callVars >>

\* Lines 125-128: await page.waitForTimeout(200); the screenshot starts.
HlWaitSettles ==
    /\ hlPc = "wait"
    /\ \/ /\ hlPc' = "screenshot"
          /\ UNCHANGED hlResult
       \/ HlThrow("waitForTimeout failed")
    /\ UNCHANGED << hlBrowser, tree, fileStyle, attrs, handles, hlIndex, shots >>
    /\ UNCHANGED << runVars, callVars >>

\* Lines 128-134: await page.screenshot writing element_<i>; the evaluate
\* that restores is called.
HlScreenshotSettles ==
    /\ hlPc = "screenshot"
    /\ \/ /\ shots' = Append(shots, Screenshot(hlIndex))
          /\ hlPc' = "restore"
          /\ UNCHANGED hlResult
       \/ /\ HlThrow("screenshot failed")
          /\ UNCHANGED shots
    /\ UNCHANGED << hlBrowser, tree, fileStyle, attrs, handles, hlIndex >>
    /\ UNCHANGED << runVars, callVars >>

\* Lines 134-141 without the evaluate: the loop goes on with the next
\* element while this one keeps its border.
HlRestoreSkipped ==
    /\ hlPc = "restore"
    /\ HlLoop(hlIndex + 1)
    /\ UNCHANGED << hlBrowser, tree, fileStyle, attrs, handles, shots >>
    /\ UNCHANGED << runVars, callVars >>

\* Lines 134-141: await page.evaluate setting the style attribute to the
\* saved text and removing data-original-style; then i++ and the test.
HlRestoreSettles ==
    /\ hlPc = "restore"
    /\ \/ /\ LET el == handles[hlIndex]
             IN  attrs' = [attrs EXCEPT ![el] =
                             [ saved |-> NoAttr,
                               style |-> Attr(AttrOrEmpty(attrs[el].saved)) ]]
          /\ HlLoop(hlIndex + 1)
       \/ /\ HlThrow("evaluate failed")
          /\ UNCHANGED << attrs, hlIndex >>
    /\ UNCHANGED << hlBrowser, tree, fileStyle, handles, shots >>
    /\ UNCHANGED << runVars, callVars >>

\* Lines 145-147: await browser.close() in the finally block.  Fulfilled,
\* the function ends as the try block did; rejected, with that error.
HlCloseSettles ==
    /\ hlPc \in { "closeAfterReturn", "closeAfterThrow" }
    /\ \/ /\ hlBrowser' = "closed"
          /\ hlPc' = IF hlPc = "closeAfterReturn" THEN "returned"
                                                  ELSE "rejected"
          /\ hlResult' = IF hlPc = "closeAfterReturn" THEN "absoluteOutputDir"
                                                      ELSE hlResult
       \/ /\ hlPc' = "rejected"
          /\ hlResult' = "browser.close failed"
          /\ UNCHANGED hlBrowser
    /\ UNCHANGED << tree, fileStyle, attrs, handles, hlIndex, shots >>
    /\ UNCHANGED << runVars, callVars >>

(***************************************************************************)
(* Specifications.                                                         *)
(***************************************************************************)

\* The steps of the host process of run r.
HostStep(r) ==
    \/ Call(r)
    \/ LaunchSettles(r)
    \/ NewContextSettles(r)
    \/ NewPageSettles(r)
    \/ GotoSettles(r)
    \/ ExposeProgressSettles(r)
    \/ ExposeFinishSettles(r)
    \/ SetContentSettles(r)
    \/ AwaitFinishEnds(r)
    \/ VideoPathSettles(r)
    \/ CloseContextSettles(r)
    \/ MoveSettles(r)
    \/ SleepSettles(r)
    \/ CleanRemoveVideo(r)
    \/ CleanReaddir(r)
    \/ CleanRemoveDir(r)

HostNext == \E r \in { CliRun } : HostStep(r)

\* One call of transformToVideo, as src/cli.ts makes it.
Next ==
    \/ HostNext
    \/ OnReplayFinish(CliRun)
    \/ CallerCancel(CliRun)

Spec == Init /\ [][Next]_vars

\* The event loop runs every settled operation's continuation; the replay
\* runtime and the caller are under no obligation.
FairSpec == Spec /\ WF_vars(HostNext)

\* The batch script: one process per recording, all started in the
\* background from one working directory.
BatchNext ==
    \E r \in Runs :
       \/ HostStep(r)
       \/ OnReplayFinish(r)

BatchSpec == Init /\ [][BatchNext]_vars

\* One call of transformToVideo, and one of createSnapshots, with any
\* options and any events file.
CallInit ==
    /\ RunsInit
    /\ CallIdle
    /\ NoPage
    /\ passed \in { MakeOptions(i, o, q, p) :
                       i \in InputChoices, o \in OutputChoices,
                       q \in RatioChoices, p \in PlayerChoices }
    /\ options = passed
    /\ file \in FileChoices

CallNext ==
    \/ TransformCall
    \/ CreateSnapshotsReads
    \/ GetHtml

CallSpec == CallInit /\ [][CallNext]_vars

\* The events getMaxViewport is tried on.
EventChoices == { Meta(320, 480), Meta(800, 768), Meta(1024, 600), OtherEvent }

EventSequences ==
    UNION { [1 .. n -> EventChoices] : n \in 0 .. MaxEvents }

\* getMaxViewport on every recording of up to MaxEvents events.
ViewportInit ==
    /\ RunsInit
    /\ CallIdle
    /\ NoPage
    /\ passed = cliOptions
    /\ options = cliOptions
    /\ file \in { [kind |-> "array", events |-> s] : s \in EventSequences }

ViewportNext == GetMaxViewport

ViewportSpec == ViewportInit /\ [][ViewportNext]_vars

\* The call of src/cli.ts on a recording whose event carries any text.
HtmlInit ==
    /\ RunsInit
    /\ CallIdle
    /\ NoPage
    /\ passed = cliOptions
    /\ options = cliOptions
    /\ file \in { [kind |-> "array", events |-> << OtherEvent, TextEvent(s) >>] :
                     s \in Texts }

HtmlNext ==
    \/ TransformCall
    \/ GetHtml

HtmlSpec == HtmlInit /\ [][HtmlNext]_vars

\* One call of highlightElements on a page whose container has up to
\* MaxNodes descendants, each with any style.
HighlightInit ==
    /\ RunsInit
    /\ CallIdle
    /\ passed = cliOptions
    /\ options = cliOptions
    /\ file = [kind |-> "array", events |-> << OtherEvent >>]
    /\ HighlightIdle
    /\ tree \in TreeChoices
    /\ fileStyle \in [DOMAIN tree -> StyleChoices]
    /\ attrs = [n \in DOMAIN tree |->
                   [style |-> fileStyle[n], saved |-> NoAttr]]

HighlightNext ==
    \/ HlCall
    \/ HlEnsureDirSettles
    \/ HlLaunchSettles
    \/ HlNewContextSettles
    \/ HlNewPageSettles
    \/ HlGotoSettles
    \/ HlQuerySettles
    \/ HlFlattenSettles
    \/ HlOriginalSettles
    \/ HlHighlightSettles
    \/ HlWaitSettles
    \/ HlScreenshotSettles
    \/ HlRestoreSettles
    \/ HlCloseSettles

HighlightSpec == HighlightInit /\ [][HighlightNext]_vars

(***************************************************************************)
(* Properties.                                                             *)
(***************************************************************************)

\* C1: the replay document is loaded (page.setContent is started) only
\* when both bridge functions, onReplayProgressUpdate and onReplayFinish,
\* are registered on the page.
BridgeBeforeContent ==
    \A r \in Runs : content[r] => { ProgressFn, FinishFn } \subseteq exposed[r]

ContentLoading == \E r \in Runs : content[r] /\ pc[r] = "setContent"

\* C2: the promise the run waits on is resolved by the first call of
\* onReplayFinish and by no other; no finalization step (reading the
\* capture path, closing the context, moving the capture, cleanFiles) is
\* started more than once in a run.
FinishResolvesOnce ==
    \A r \in Runs :
       /\ completion[r] = "resolved" <=> finishCalls[r] >= 1
       /\ \A s \in FinalizationSteps : steps[r][s] <= 1

FinishCalledTwice ==
    \E r \in Runs : finishCalls[r] >= 2 /\ steps[r]["clean"] = 1

\* C3: no finalization step of a run has begun while the page has not
\* called onReplayFinish.
FinishBeforeFinalization ==
    \A r \in Runs :
       \/ finishCalls[r] >= 1
       \/ /\ \A s \in FinalizationSteps : steps[r][s] = 0
          /\ pc[r] \notin { "videoPath", "closeContext", "move", "sleep",
                            "returned" }
          /\ context[r] # "closed"
          /\ cleanPc[r] = "idle"

CaptureBeingMoved == \E r \in Runs : pc[r] = "move" /\ steps[r]["move"] = 1

\* C4: a run whose page never calls onReplayFinish does not wait forever:
\* it ends with PlaybackTimeoutError, its context torn down and no temp
\* directory left.
NoEndlessWaitForFinish ==
    \A r \in Runs :
       [](content[r] =>
            <>(\/ finishCalls[r] >= 1
               \/ /\ result[r] = "PlaybackTimeoutError"
                  /\ context[r] # "open"
                  /\ ~tempDir))

\* C5: a run the caller cancelled before it completed ends with the
\* outcome Cancelled, its context torn down and no temp directory left.
CancelledRunEndsCancelled ==
    \A r \in Runs :
       cancelAsked[r] /\ pc[r] \in Settled =>
          /\ result[r] = "Cancelled"
          /\ context[r] # "open"
          /\ ~tempDir

\* C6: when transformToVideo has returned, the browser it launched is
\* closed.
BrowserClosedOnReturn ==
    \A r \in Runs : pc[r] = "returned" => browser[r] = "closed"

\* C7: when transformToVideo has thrown after launching the browser, the
\* browser and the context are torn down and the temp directory is clean.
TeardownBeforeError ==
    \A r \in Runs :
       pc[r] = "rejected" /\ browser[r] # "none" =>
          /\ browser[r] = "closed"
          /\ context[r] # "open"
          /\ r \notin tempFiles
          /\ ~tempDir

\* C8: when transformToVideo has returned or thrown, the cleanup of the
\* run is over: cleanFiles is not under way, the run's capture is not in
\* the temp directory and the temp directory is not left empty.
CleanupOverAtSettle ==
    \A r \in Runs :
       pc[r] \in Settled =>
          /\ cleanPc[r] \in { "idle", "done" }
          /\ r \notin tempFiles
          /\ tempDir => tempFiles # {}

\* C9: two runs that record at the same time record into different
\* directories.
PrivateTempDirs ==
    \A r1, r2 \in Runs :
       r1 # r2 /\ context[r1] = "open" /\ context[r2] = "open" =>
          RecordDir(r1) # RecordDir(r2)

\* C10: a run whose input cannot be read or parsed fails without a
\* browser, a context, a page or a capture directory of its own.
UnparseableAllocatesNothing ==
    \A r \in Runs :
       input[r] \in { "unreadable", "malformed" } =>
          /\ pc[r] = "rejected"
          /\ browser[r] = "none"
          /\ context[r] = "none"
          /\ exposed[r] = {}
          /\ RecordDir(r) = "none"
          /\ r \notin tempFiles

UnparseableRejected ==
    \E r \in Runs : input[r] = "malformed" /\ pc[r] = "rejected"

\* The caller wrote no usable options.input.
NoInput ==
    LET v == Get(passed, "input")
    IN  v.type = "undefined" \/ (v.type = "string" /\ Len(v.segs) = 0)

\* C11: with options.input missing or empty, transformToVideo fails with
\* 'input is required' before it reads a file or reaches the launch, and
\* leaves the options object and the module's defaults as they were.
InputRequiredFirst ==
    NoInput /\ resolved.stage # "idle" =>
       /\ resolved.stage = "rejected"
       /\ resolved.error = "input is required"
       /\ ~resolved.fileRead
       /\ options = passed
       /\ DOMAIN defaultPlayer = {}

EmptyInputRejected ==
    /\ NoInput
    /\ "input" \in DOMAIN passed
    /\ "output" \in DOMAIN passed
    /\ resolved.stage = "rejected"

\* The events file holds JSON that is no array, or an empty array.
NoEvents == file.kind = "object" \/ (file.kind = "array" /\ Len(file.events) = 0)

\* C12: an events file that parses to an empty array or to a value that is
\* no array never reaches the rendering stage, in transformToVideo as in
\* createSnapshots.
EmptyOrNonArrayRejected ==
    NoEvents =>
       /\ resolved.stage # "launch"
       /\ snapshots \in { "idle", "Events file is empty or invalid" }

\* The maximum of a non-empty set of numbers.
MaxOf(S) == CHOOSE x \in S : \A y \in S : y <= x

MetaEvents(events) == { i \in 1 .. Len(events) : events[i].type = "Meta" }

\* The sequences with the events of s in any order.
Reorderings(s) ==
    { [i \in 1 .. Len(s) |-> s[p[i]]] : p \in Permutations(1 .. Len(s)) }

\* C13 as stated: with at least one Meta event, getMaxViewport returns
\* exactly the maximum width and the maximum height of the Meta events.
ViewportIsMetaMaximum ==
    LET ev == file.events
        m == MetaEvents(ev)
    IN  maxViewport # Undefined /\ m # {} =>
           /\ maxViewport.width = MaxOf({ ev[i].width : i \in m })
           /\ maxViewport.height = MaxOf({ ev[i].height : i \in m })

\* C13: with at least one Meta event, getMaxViewport returns in each
\* dimension the larger of the floor and the maximum over the Meta events,
\* and returns the same for every reordering of the events.
ViewportIsFlooredMetaMaximum ==
    LET ev == file.events
        m == MetaEvents(ev)
    IN  maxViewport # Undefined /\ m # {} =>
           /\ maxViewport.width =
                 MaxOf({ ev[i].width : i \in m } \cup { FloorWidth })
           /\ maxViewport.height =
                 MaxOf({ ev[i].height : i \in m } \cup { FloorHeight })
           /\ \A t \in Reorderings(ev) : getMaxViewport(t) = maxViewport

MaximumFromTwoEvents ==
    /\ maxViewport = [width |-> 1024, height |-> 768]
    /\ Len(file.events) = 3
    /\ file.events[1] = Meta(1024, 600)
    /\ file.events[3] = Meta(320, 480)

\* C14: for a recording with no Meta event, the empty one included,
\* getMaxViewport returns the floor dimensions, which are positive, and
\* the events are left as they were.
NoMetaGivesFloor ==
    /\ [](maxViewport # Undefined /\ MetaEvents(file.events) = {} =>
            /\ maxViewport = [width |-> FloorWidth, height |-> FloorHeight]
            /\ maxViewport.width > 0
            /\ maxViewport.height > 0)
    /\ [][file' = file]_vars

FloorForEmptyRecording ==
    maxViewport # Undefined /\ Len(file.events) = 0

\* C15: the capture viewport is round(contentViewport * ratio) in each
\* dimension, contentViewport being what getMaxViewport derives from the
\* Meta events of the recording.
CaptureViewportFromMeta ==
    resolved.stage = "launch" =>
       LET cv == getMaxViewport(file.events)
           q == resolved.ratio
       IN  resolved.scaledViewport =
              [ width |-> Round(cv.width * q.num, q.den),
                height |-> Round(cv.height * q.num, q.den) ]

\* The ratio the caller wrote, when it is a number.
GivenRatio == Get(passed, "resolutionRatio")

\* C16: a resolutionRatio above 1 is stored and used as exactly 1, and
\* the viewport is computed from the clamped value.
RatioAboveOneClamped ==
    /\ GivenRatio.type = "number"
    /\ GivenRatio.num > GivenRatio.den
    /\ resolved.stage # "idle"
    /\ resolved.fileRead
    => /\ resolved.config.resolutionRatio = Num(1, 1)
       /\ resolved.stage = "launch" =>
             /\ resolved.ratio = Num(1, 1)
             /\ resolved.scaledViewport =
                   [ width |-> fixedViewport.width * MaxScaleValue,
                     height |-> fixedViewport.height * MaxScaleValue ]

RatioAboveOneLaunched ==
    /\ GivenRatio.type = "number"
    /\ GivenRatio.num > GivenRatio.den
    /\ resolved.stage = "launch"

\* C17: for a resolutionRatio in (0, 1], both dimensions of the capture
\* viewport are at least 1.
PositiveCaptureViewport ==
    /\ GivenRatio.type = "number"
    /\ 0 < GivenRatio.num
    /\ GivenRatio.num <= GivenRatio.den
    /\ resolved.stage = "launch"
    => /\ resolved.scaledViewport.width >= 1
       /\ resolved.scaledViewport.height >= 1

\* C18: whatever the caller wrote for resolutionRatio, the ratio of the
\* resolved config, and the one used for the viewport, is in (0, 1].
RatioInUnitInterval ==
    resolved.stage = "launch" =>
       /\ resolved.config.resolutionRatio.type = "number"
       /\ 0 < resolved.config.resolutionRatio.num
       /\ resolved.config.resolutionRatio.num
             <= resolved.config.resolutionRatio.den
       /\ resolved.ratio = resolved.config.resolutionRatio

\* The output the caller wrote, when there is one to use.
GivenOutput == Get(passed, "output")
NoOutput ==
    GivenOutput.type = "undefined" \/ Len(GivenOutput.segs) = 0

\* C19: the output path is 'rrvideo-output.webm' in the working directory
\* when options.output is absent, undefined or empty; a relative output
\* resolved against the working directory; an absolute output unchanged.
OutputPathResolved ==
    resolved.stage # "idle" /\ resolved.fileRead =>
       resolved.outputPath =
          IF NoOutput THEN cwd \o << "rrvideo-output.webm" >>
          ELSE IF GivenOutput.segs[1] = "/" THEN GivenOutput.segs
          ELSE cwd \o GivenOutput.segs

EmptyOutputDefaulted ==
    /\ "output" \in DOMAIN passed
    /\ passed.output.type = "string"
    /\ NoOutput
    /\ resolved.stage = "launch"

\* fs.move of run r has settled without the capture at the output path.
MoveFailed(r) == pc[r] \in { "sleep", "returned" } /\ outputFile[r] # "capture"

FailedMoveRejects ==
    \A r \in Runs :
       pc[r] \in Settled /\ steps[r]["move"] >= 1 /\ outputFile[r] # "capture"
          => pc[r] = "rejected" /\ result[r] = "ArtifactMoveError"

\* C22: whatever the outcome of the move, the output path holds the
\* complete capture of the run or what it held before the run.
OutputPathWholeOrUntouched ==
    \A r \in Runs : outputFile[r] \in { "capture", "untouched" }

\* C24: the temp directory is removed only at a moment when it holds no
\* file, and a run whose cleanup completes with the directory empty has
\* removed it.
TempDirRemovedIffEmpty ==
    [][ /\ (tempDir /\ ~tempDir' => tempFiles = {})
        /\ \A r \in Runs :
              cleanPc[r] # "done" /\ cleanPc'[r] = "done" /\ tempFiles' = {}
                 => ~tempDir' ]_vars

\* C25: cleanFiles never ends in an error, whatever was removed before it
\* looked.
CleanFilesNeverFails ==
    \A r \in Runs : cleanPc[r] # "failed"

\* C26: the move of a run is started only when its context is closed, and
\* the file the move takes to the output path is the capture of the run's
\* own page.
MoveAfterClose ==
    \A r \in Runs :
       /\ steps[r]["move"] >= 1 => context[r] = "closed"
       /\ outputFile[r] = "capture" => r \notin tempFiles

CaptureMovedAfterClose ==
    \E r \in Runs :
       /\ pc[r] = "sleep"
       /\ outputFile[r] = "capture"
       /\ context[r] = "closed"
       /\ tempFiles # {}

\* C27: a call of transformToVideo leaves the caller's options object,
\* its output field and its rrwebPlayer object included, as it was.
OptionsLeftAsPassed ==
    resolved.stage # "idle" => options = passed

\* C28: calls of transformToVideo leave the module's defaultConfig, its
\* rrwebPlayer object included, as the module defined it.
DefaultConfigUnchanged ==
    DOMAIN defaultPlayer = {}

\* The rrwebPlayer object as the caller wrote it, when there is one.
GivenBag ==
    IF Get(passed, "rrwebPlayer").type = "object"
      THEN passed.rrwebPlayer.fields
      ELSE << >>

\* C29: every field the caller set in rrwebPlayer is a prop of the player
\* with the caller's value, and the props the caller did not set have the
\* document's defaults.
PlayerPropsFromCaller ==
    html # Undefined =>
       /\ \A k \in DOMAIN GivenBag :
             k \in DOMAIN html.props /\ html.props[k] = GivenBag[k]
       /\ \A k \in DOMAIN builtinProps \ DOMAIN GivenBag :
             html.props[k] = builtinProps[k]

\* A script end tag in the text: "</", the tag's name in either case,
\* any white space, then ">".
EndsScript(t) ==
    \E i, j \in 1 .. Len(t) :
       /\ i + 3 <= j
       /\ t[i] = "<"
       /\ t[i + 1] = "/"
       /\ t[i + 2] \in { "script", "SCRIPT" }
       /\ \A k \in i + 3 .. j - 1 : t[k] = " "
       /\ t[j] = ">"

\* C30: the event data embedded in the replay document holds no end of
\* the script block, whatever the text of the events.
EmbeddedEventsKeepScriptOpen ==
    html # Undefined => ~EndsScript(html.events)

\* C23: at most one descendant carries the border of the highlight at any
\* time, and the screenshot element_i was taken with the i-th element of
\* descendantHandles, and no other, highlighted.
OneElementAtATime ==
    /\ Cardinality(Highlighted) <= 1
    /\ \A k \in 1 .. Len(shots) :
          shots[k].index >= 1 =>
             shots[k].highlighted = { handles[shots[k].index] }

SecondElementShot ==
    /\ Len(shots) = 3
    /\ shots[3].index = 2
    /\ hlPc = "restore"
    /\ Highlighted = { handles[2] }
    /\ handles[2] # 2

\* C31: a run returns as soon as its artifact is finalized: once fs.move
\* has settled and the cleanup is started, no step of waiting stands
\* between the run and its return.
ReturnsOnceFinalized ==
    \A r \in Runs : steps[r]["clean"] >= 1 => pc[r] = "returned"

\* Node a is the container or an element above element n.
RECURSIVE Above(_, _)
Above(a, n) == n # 0 /\ (tree[n] = a \/ Above(a, tree[n]))

\* The place of element n in the sequence h.
PlaceIn(h, n) == CHOOSE i \in 1 .. Len(h) : h[i] = n

\* h is the depth-first preorder of the container's descendants: every
\* descendant once and nothing else, an element before what is below it,
\* siblings in document order, and what is below an element right after it.
IsPreorder(h) ==
    /\ Len(h) = Len(tree)
    /\ { h[i] : i \in 1 .. Len(h) } = DOMAIN tree
    /\ \A a, b \in DOMAIN tree :
          /\ Above(a, b) => PlaceIn(h, a) < PlaceIn(h, b)
          /\ tree[a] = tree[b] /\ a < b => PlaceIn(h, a) < PlaceIn(h, b)
          /\ Above(a, b) =>
                \A c \in DOMAIN tree :
                   PlaceIn(h, a) < PlaceIn(h, c) /\ PlaceIn(h, c) < PlaceIn(h, b)
                      => Above(a, c)

\* C32: descendantHandles is the depth-first preorder of the container's
\* descendants, without the container, and the screenshots of the
\* elements are written in that order: element_i is the i-th written
\* after the original.
DescendantsInPreorder ==
    /\ hlPc \in { "original", "highlight", "wait", "screenshot", "restore" }
          => IsPreorder(handles)
    /\ handles # << >> => IsPreorder(handles)
    /\ \A k \in 1 .. Len(shots) :
          /\ shots[k].index = k - 1
          /\ shots[k].index <= Len(handles)

NestedPageFlattened ==
    /\ tree = << 0, 0, 1 >>
    /\ handles = << 1, 3, 2 >>
    /\ Len(shots) = 4
    /\ hlPc = "returned"

\* The elements highlightElements is through with.
Processed ==
    { handles[i] : i \in { j \in 1 .. Len(handles) :
                              j < hlIndex \/ hlPc = "returned" } }

\* C33: an element highlightElements has processed has its style
\* attribute as the input file has it, absent when absent there, and no
\* data-original-style attribute.
StyleRoundTrip ==
    \A n \in Processed :
       /\ attrs[n].style = fileStyle[n]
       /\ ~attrs[n].saved.present

\* C34: when highlightElements has ended after launching the browser, the
\* browser is closed, or closing it was what failed; with a missing
\* input file it ends before the browser is launched.
BrowserClosedOnEveryExit ==
    /\ hlPc \in Settled /\ hlBrowser # "none" =>
          hlBrowser = "closed" \/ hlResult = "browser.close failed"
    /\ hlResult = "Input file not found" => hlBrowser = "none"

====
